---- MODULE Spec2Model ----
(***************************************************************************)
(* Structured Product Pricing/Main.ipynb as a state machine.               *)
(*                                                                         *)
(* The notebook is a linear sequence of code cells over a handful of       *)
(* kernel globals.  Real numbers are modelled in fixed point: the integer  *)
(* n stands for the real n / SCALE.  Sums and differences are exact, while *)
(* products, quotients and the transcendental functions round to the       *)
(* nearest unit, the way float64 rounds to the nearest representable       *)
(* value (but 12 decimal digits coarser).                                  *)
(***************************************************************************)
EXTENDS Integers, Sequences, FiniteSets, TLC

\* fixed-point resolution: one unit is 1 / SCALE
SCALE == 10^4

---------------------------------------------------------------------------
(* Fixed-point arithmetic standing for float64 arithmetic.                 *)

Abs(x) == IF x < 0 THEN -x ELSE x

Sign(x) == IF x < 0 THEN -1 ELSE IF x > 0 THEN 1 ELSE 0

\* a literal such as 0.08 == Dec(8, 100)
Dec(n, d) == (n * SCALE) \div d

\* n / d for d > 0, rounded to the nearest integer
RDivAt[n \in Int, d \in Int] == (2 * n + d) \div (2 * d)

RDiv(n, d) == RDivAt[n, d]

\* a * b, rounded to the nearest unit (split so the product stays in range)
MulNN(a, b) == (a \div SCALE) * b + ((a % SCALE) * b + SCALE \div 2) \div SCALE

MulAt[a \in Int, b \in Int] == Sign(a) * Sign(b) * MulNN(Abs(a), Abs(b))

Mul(a, b) == MulAt[a, b]

\* a / b for b # 0, rounded to the nearest unit
DivNN(a, b) == (a \div b) * SCALE + ((a % b) * SCALE + b \div 2) \div b

DivAt[a \in Int, b \in Int] == Sign(a) * Sign(b) * DivNN(Abs(a), Abs(b))

Div(a, b) == DivAt[a, b]

\* Newton's iteration for the integer square root of n, from the guess g
ISqrtFrom[n \in Int, g \in Int] ==
    IF (g + n \div g) \div 2 >= g THEN g
    ELSE ISqrtFrom[n, (g + n \div g) \div 2]

ISqrt(n) == IF n <= 0 THEN 0 ELSE ISqrtFrom[n, n]

\* np.sqrt(x) for x >= 0 (large arguments lose a digit to stay in range)
SqrtAt[x \in Int] ==
    IF x < 20 * SCALE THEN ISqrt(x * SCALE)
    ELSE 10 * ISqrt(x * (SCALE \div 100))

Sqrt(x) == SqrtAt[x]

\* term + term*x/n + term*x^2/(n(n+1)) + ... : the tail of exp's series
ExpSeries[x \in Int, term \in Int, n \in Int] ==
    IF term = 0 THEN 0
    ELSE term + ExpSeries[x, RDiv(Mul(term, x), n), n + 1]

\* np.exp(x) for x <= 0: halve the argument until the series is short
ExpNeg[x \in Int] ==
    IF x < -(12 * SCALE) THEN 0
    ELSE IF x < -(SCALE \div 4) THEN MulAt[ExpNeg[x \div 2], ExpNeg[x \div 2]]
    ELSE ExpSeries[x, SCALE, 1]

\* np.exp(x)
ExpAt[x \in Int] == IF x <= 0 THEN ExpNeg[x] ELSE Div(SCALE, ExpNeg[-x])

Exp(x) == ExpAt[x]

LN2 == Dec(6931, 10000)

\* term + term*y2/3 + term*y2^2/5 + ... : half the series of ln((1+y)/(1-y))
AtanhSeries[y2 \in Int, term \in Int, n \in Int] ==
    IF term = 0 THEN 0
    ELSE RDiv(term, n) + AtanhSeries[y2, Mul(term, y2), n + 2]

\* y for x in [3/4, 3/2), where x = (1 + y) / (1 - y)
LnArg(x) == Div(x - SCALE, x + SCALE)

\* np.log(x) for x > 0: bring x into [3/4, 3/2) by powers of two
LnAt[x \in Int] ==
    IF x >= (3 * SCALE) \div 2 THEN LN2 + LnAt[x \div 2]
    ELSE IF x < (3 * SCALE) \div 4 THEN LnAt[2 * x] - LN2
    ELSE 2 * AtanhSeries[Mul(LnArg(x), LnArg(x)), LnArg(x), 1]

Ln(x) == LnAt[x]

\* a1 t + a2 t^2 + ... + a5 t^5 (Abramowitz & Stegun 7.1.26)
ErfPoly[t \in Int] ==
    Mul(t, Dec(2548, 10000)
         + Mul(t, -Dec(2845, 10000)
         + Mul(t, Dec(14214, 10000)
         + Mul(t, -Dec(14532, 10000)
         + Mul(t, Dec(10614, 10000))))))

\* math.erf(z) for z >= 0: 1 - (a1 t + ... + a5 t^5) exp(-z^2), t = 1/(1 + p z)
ErfNN[z \in Int] ==
    IF z > 6 * SCALE THEN SCALE
    ELSE SCALE - Mul(ErfPoly[Div(SCALE, SCALE + Mul(Dec(3276, 10000), z))],
                     Exp(-Mul(z, z)))

\* math.erf(z), an odd function
Erf(z) == IF z < 0 THEN -ErfNN[-z] ELSE ErfNN[z]

\* statistics.NormalDist().cdf(x) == 0.5 * (1.0 + erf(x / sqrt(2.0)))
PhiAt[x \in Int] == RDiv(SCALE + Erf(Div(x, Sqrt(2 * SCALE))), 2)

Phi(x) == PhiAt[x]

---------------------------------------------------------------------------
(* float64 values that are not finite: numpy divides by zero and takes the *)
(* square root or logarithm of a negative number without raising.          *)

Fin(v) == [kind |-> "fin", val |-> v]
PInf   == [kind |-> "pinf", val |-> 0]
NInf   == [kind |-> "ninf", val |-> 0]
NaN    == [kind |-> "nan", val |-> 0]

XVal == [kind : {"fin", "pinf", "ninf", "nan"}, val : Int]

\* np.log(S0 / K) for S0 > 0: nan for K < 0, inf for K = 0, -inf on underflow
XLogRatio(S0, K) ==
    IF K < 0 THEN NaN
    ELSE IF K = 0 THEN PInf
    ELSE IF Div(S0, K) = 0 THEN NInf
    ELSE Fin(Ln(Div(S0, K)))

\* num / den in float64: x/0 is +-inf, 0/0 and anything with nan is nan
XDivAt[num \in XVal, den \in XVal] ==
    IF num.kind = "nan" \/ den.kind = "nan" THEN NaN
    ELSE IF num.kind = "fin" /\ den.val # 0 THEN Fin(Div(num.val, den.val))
    ELSE LET sn == IF num.kind = "fin" THEN Sign(num.val)
                   ELSE IF num.kind = "pinf" THEN 1 ELSE -1
             sd == IF den.val < 0 THEN -1 ELSE 1
         IN  IF sn = 0 THEN NaN ELSE IF sn * sd > 0 THEN PInf ELSE NInf

XDiv(num, den) == XDivAt[num, den]

\* x - y for a finite y
XSubFinAt[x \in XVal, y \in Int] ==
    IF x.kind = "fin" THEN Fin(x.val - y) ELSE x

XSubFin(x, y) == XSubFinAt[x, y]

\* NormalDist().cdf(x), with cdf(inf) = 1, cdf(-inf) = 0, cdf(nan) = nan
XPhiAt[x \in XVal] ==
    IF x.kind = "fin" THEN Fin(Phi(x.val))
    ELSE IF x.kind = "pinf" THEN Fin(SCALE)
    ELSE IF x.kind = "ninf" THEN Fin(0)
    ELSE NaN

XPhi(x) == XPhiAt[x]

---------------------------------------------------------------------------
(* def BS(S0, K, r, s, T): the closed-form pricer.  It has no guard and    *)
(* no raise: every input yields a returned pair, possibly of nan.          *)

\* s * np.sqrt(T)
VolSqrtT(s, T) ==
    IF T < 0 THEN NaN ELSE Fin(Mul(s, Sqrt(T)))

\* np.log(S0 / K) + (r + s**2 / 2) * T
D1Numerator[lg \in XVal, drift \in Int] ==
    IF lg.kind = "fin" THEN Fin(lg.val + drift) ELSE lg

BS_d1At[S0 \in Int, K \in Int, r \in Int, s \in Int, T \in Int] ==
    XDiv(D1Numerator[XLogRatio(S0, K), Mul(r + RDiv(Mul(s, s), 2), T)],
         VolSqrtT(s, T))

\* d1 = (np.log(S0 / K) + (r + s**2 / 2) * T) / (s * np.sqrt(T))
BS_d1(S0, K, r, s, T) == BS_d1At[S0, K, r, s, T]

\* d2 = d1 - s * np.sqrt(T)
BS_d2(d1, s, T) ==
    IF d1.kind = "nan" \/ T < 0 THEN NaN ELSE XSubFin(d1, Mul(s, Sqrt(T)))

\* K * np.exp(-r*T)
DiscK(K, r, T) == Mul(K, Exp(-Mul(r, T)))

CallAt[n1 \in XVal, n2 \in XVal, S0 \in Int, disc \in Int] ==
    IF n1.kind = "nan" \/ n2.kind = "nan" THEN NaN
    ELSE Fin(Mul(S0, n1.val) - Mul(disc, n2.val))

BS_callAt[S0 \in Int, K \in Int, r \in Int, s \in Int, T \in Int] ==
    CallAt[XPhi(BS_d1(S0, K, r, s, T)),
           XPhi(BS_d2(BS_d1(S0, K, r, s, T), s, T)), S0, DiscK(K, r, T)]

\* call = S0 * NormalDist().cdf(d1) - K * np.exp(-r*T) * NormalDist().cdf(d2)
BS_call(S0, K, r, s, T) == BS_callAt[S0, K, r, s, T]

\* a sign slip in the parity line: put = call - K * np.exp(-r*T) + S0
BS_putSignSlip(call, S0, K, r, T) == call - DiscK(K, r, T) + S0

\* put = call + K * np.exp(-r*T) - S0  # by put-call parity
BS_put(call, S0, K, r, T) == call + DiscK(K, r, T) - S0

BSAt[call \in XVal, S0 \in Int, K \in Int, r \in Int, T \in Int] ==
    IF call.kind = "nan"
    THEN [ret |-> "nan", call |-> 0, put |-> 0]
    ELSE [ret |-> "value", call |-> call.val,
          put |-> BS_put(call.val, S0, K, r, T)]

\* return call, put
BS(S0, K, r, s, T) == BSAt[BS_call(S0, K, r, s, T), S0, K, r, T]

\* NormalDist().pdf(x) == exp(-x^2 / 2) / sqrt(2 pi)
PdfAt[x \in Int] == Div(Exp(-RDiv(Mul(x, x), 2)), Sqrt(Dec(62832, 10000)))

Pdf(x) == PdfAt[x]

---------------------------------------------------------------------------
(* The Greeks cell: d1 at the money, delta_c, delta_p.                     *)

\* d1 = ((rfr + vol**2 / 2) * maturity) / (vol * np.sqrt(maturity))
Greeks_d1(r, s, T) ==
    XDiv(Fin(Mul(r + RDiv(Mul(s, s), 2), T)), VolSqrtT(s, T))

\* delta_c = NormalDist().cdf(d1)
Delta_c(d1) == XPhi(d1).val

\* the put delta with its sign lost: delta_p = 1 - delta_c
Delta_pSignSlip(delta_c) == SCALE - delta_c

\* delta_p = delta_c - 1
Delta_p(delta_c) == delta_c - SCALE

---------------------------------------------------------------------------
(* numpy.random: default_rng(seed) makes a new Generator whose stream is a *)
(* function of the seed alone; the legacy functions np.random.* share one  *)
(* global state.  A 4-bit congruential generator and an 8-point table of   *)
(* normal quantiles stand for PCG64 and the ziggurat sampler.              *)

RngStates == 0 .. 15

\* SeedSequence(seed): the initial state of the generator
SeedState(seed) == (7 * seed + 1) % 16

\* one step of the bit generator
RngNext(g) == (5 * g + 3) % 16

NormalTable ==
    << -Dec(15, 10), -Dec(9, 10), -Dec(5, 10), -Dec(15, 100),
       Dec(15, 100), Dec(5, 10), Dec(9, 10), Dec(15, 10) >>

\* Generator.normal(size = n) from state g: n successive draws
RECURSIVE NormalDraws(_, _)
NormalDraws(g, n) ==
    IF n = 0 THEN << >>
    ELSE << NormalTable[(g % 8) + 1] >> \o NormalDraws(RngNext(g), n - 1)

\* size of the Monte Carlo sample (10000 in the notebook)
NDraws == 3

\* seed = 42
Seed == 42

\* the sample drawn from the legacy global state: np.random.normal(size=...)
SampleStateGlobal(seed, g) == g

\* the generator state the sample is drawn from: default_rng(seed = 42),
\* whatever the global state g is
SampleState(seed, g) == SeedState(seed)

RECURSIVE SumSeq(_)
SumSeq(q) == IF q = << >> THEN 0 ELSE Head(q) + SumSeq(Tail(q))

\* np.mean
Mean(q) == RDiv(SumSeq(q), Len(q))

\* np.fmax(0, x)
Fmax0(x) == IF x > 0 THEN x ELSE 0

\* ST = last_close * np.exp((rfr - vol**2 / 2) * maturity
\*                          + vol * epsilon * np.sqrt(maturity))
TerminalPrice(S0, r, s, T, eps) ==
    Mul(S0, Exp(Mul(r - RDiv(Mul(s, s), 2), T) + Mul(Mul(s, eps), Sqrt(T))))

---------------------------------------------------------------------------
(* scipy.optimize.root(fun, x0) with the default method (MINPACK hybrd): a *)
(* quasi-Newton iteration from x0 with a forward-difference Jacobian.  It  *)
(* returns an OptimizeResult; on failure (singular Jacobian, no progress,  *)
(* nan, too many evaluations) it does not raise: success is False and x is *)
(* the last iterate.                                                       *)

\* the evaluation budget (200 * (n + 1) in the library)
MaxFev == 12

\* the forward-difference step
FDStep == SCALE \div 100

\* fun = lambda x : BS(1, x, rfr, vol, maturity)[0] - c_otm
RootFun(x, r, s, T, target) ==
    XSubFin(BS_call(SCALE, x, r, s, T), target)

\* one iteration from x after n evaluations: the Newton step fx / slope with
\* the slope taken from a forward difference
HybrStepOf[x \in Int, n \in Nat, fx \in XVal, fh \in XVal] ==
    IF fx.kind = "nan" THEN [x |-> x, success |-> FALSE, done |-> TRUE]
    ELSE IF fx.val = 0 THEN [x |-> x, success |-> TRUE, done |-> TRUE]
    ELSE IF n >= MaxFev \/ fh.kind = "nan"
         THEN [x |-> x, success |-> FALSE, done |-> TRUE]
    ELSE IF Div(fh.val - fx.val, FDStep) = 0
         THEN [x |-> x, success |-> FALSE, done |-> TRUE]
    ELSE LET step == Div(fx.val, Div(fh.val - fx.val, FDStep))
         IN  [x |-> x - step, success |-> Abs(step) <= 1,
              done |-> Abs(step) <= 1]

HybrStep(x, n, fx, fh) == HybrStepOf[x, n, fx, fh]

HybrStepAt[x \in Int, n \in Nat, r \in Int, s \in Int, T \in Int, target \in Int] ==
    HybrStep(x, n, RootFun(x, r, s, T, target),
             RootFun(x + FDStep, r, s, T, target))

\* what one iteration leaves: the iterate, and whether and how it stopped
StepState == [x : Int, success : BOOLEAN, done : BOOLEAN]

\* iterate until the step is below the tolerance or the solver gives up
HybrIter[st \in StepState, n \in Nat, r \in Int, s \in Int, T \in Int, target \in Int] ==
    IF st.done THEN [x |-> st.x, success |-> st.success]
    ELSE HybrIter[HybrStepAt[st.x, n + 1, r, s, T, target], n + 1, r, s, T,
                  target]

OptimizeRoot(x0, r, s, T, target) ==
    HybrIter[HybrStepAt[x0, 0, r, s, T, target], 0, r, s, T, target]

---------------------------------------------------------------------------
(* The notebook: its code cells in document order, run top to bottom on a  *)
(* fresh kernel.                                                           *)

VARIABLES
    pc,         \* position in CodeCells of the next cell to run
    ns,         \* the kernel's global namespace: name -> value
    out,        \* the values the cells displayed: cell -> value
    writes,     \* how often each name was assigned in this run
    err,        \* "none", or the exception that stopped the run
    sol,        \* the OptimizeResult of the last optimize.root call
    pvCheck,    \* the bank PV the last cell compared with 0
    globalRng,  \* the state behind the legacy np.random.* functions
    run,        \* which run of the notebook this is
    prev,       \* the Monte Carlo inputs and prices of the run before
    args,       \* the arguments of a direct call of a function
    res         \* what that call returned

vars == << pc, ns, out, writes, err, sol, pvCheck, globalRng, run, prev,
           args, res >>

\* the structuring cells moved above the cell that defines BS and rfr
CodeCellsStructuringFirst ==
    << "Imports", "ReadCsv", "ParseDates", "Returns", "Volatility",
       "ParticipationRate", "BankPV", "RequiredOTM", "SolveStrike",
       "BankCheck", "PriceBS", "MonteCarlo", "Delta", "DeltaSens", "Vega",
       "VegaSens" >>

\* the code cells, named, in document order
CodeCells ==
    << "Imports", "ReadCsv", "ParseDates", "Returns", "Volatility",
       "PriceBS", "MonteCarlo", "Delta", "DeltaSens", "Vega", "VegaSens",
       "ParticipationRate", "BankPV", "RequiredOTM", "SolveStrike",
       "BankCheck" >>

\* the global names a cell reads before (or without) assigning them itself
CellReads(cell) ==
    CASE cell = "Imports"    -> {}
      [] cell = "ReadCsv"    -> {"pd"}
      [] cell = "ParseDates" -> {"df", "datetime"}
      [] cell = "Returns"    -> {"np", "df"}
      [] cell = "Volatility" -> {"np", "df"}
      [] cell = "PriceBS"    -> {"np", "NormalDist", "vol"}
      [] cell = "MonteCarlo" ->
            {"default_rng", "np", "last_close", "rfr", "vol", "maturity"}
      [] cell = "Delta"      -> {"np", "NormalDist", "rfr", "vol", "maturity"}
      [] cell = "DeltaSens"  ->
            {"np", "NormalDist", "d1", "vol", "rfr", "maturity"}
      [] cell = "Vega"       ->
            {"np", "NormalDist", "last_close", "maturity", "d1"}
      [] cell = "VegaSens"   ->
            {"np", "last_close", "maturity", "d1", "vol", "rfr"}
      [] cell = "ParticipationRate" ->
            {"np", "NormalDist", "BS", "rfr", "vol", "maturity"}
      [] cell = "BankPV"     ->
            {"np", "p0", "tr_rate", "T", "pnl", "k", "call_spread"}
      [] cell = "RequiredOTM" ->
            {"np", "NormalDist", "BS", "rfr", "vol", "T", "p0", "maturity"}
      [] cell = "SolveStrike" ->
            {"optimize", "np", "NormalDist", "BS", "rfr", "vol", "maturity",
             "c_otm"}
      [] cell = "BankCheck"  ->
            {"np", "NormalDist", "BS", "p0", "tr_rate", "maturity", "pnl",
             "rfr", "vol", "T", "c_otm"}

\* standard deviations of the daily log return that IMOEX_data.csv may hold
DailyStd == {7, 32, 63, 126, 224, 378}

\* the columns of the file, lower-cased by df.rename
CsvColumns == {"tradedate", "close"}

NoSol == [ran |-> FALSE, x |-> 0, success |-> FALSE]

NoPrev == [set |-> FALSE, vol |-> 0, c_mc |-> 0, p_mc |-> 0, rng |-> 0]

NoArgs == [S0 |-> 0, K |-> 0, r |-> 0, s |-> 0, T |-> 0]

NoRes == [fn |-> "none"]

\* name = value, ... : bind the names of upd in the namespace
Bind(f, upd) == upd @@ f

Count(w, upd) ==
    [n \in DOMAIN w \cup DOMAIN upd |->
        (IF n \in DOMAIN w THEN w[n] ELSE 0)
        + (IF n \in DOMAIN upd THEN 1 ELSE 0)]

\* the next cell to run is `cell`, and nothing has stopped the run
AtCell(cell) ==
    /\ err = "none"
    /\ pc <= Len(CodeCells)
    /\ CodeCells[pc] = cell

\* the cell runs: a name it reads is unbound -> NameError, the run stops;
\* otherwise it binds upd, displays shown (cell :> value)
RunCell(cell, upd, shown) ==
    IF CellReads(cell) \subseteq DOMAIN ns
    THEN /\ ns' = Bind(ns, upd)
         /\ writes' = Count(writes, upd)
         /\ out' = shown @@ out
         /\ pc' = pc + 1
         /\ err' = err
    ELSE /\ err' = "NameError"
         /\ UNCHANGED << ns, writes, out, pc >>

Nothing == << >>

\* how many times the notebook is run
MaxRuns == 2

\* the states the legacy global generator may be in when a kernel starts
GlobalSeeds == {1, 6, 11}

Init ==
    /\ pc = 1
    /\ ns = << >>
    /\ out = << >>
    /\ writes = << >>
    /\ err = "none"
    /\ sol = NoSol
    /\ pvCheck = 0
    /\ globalRng \in GlobalSeeds
    /\ run = 1
    /\ prev = NoPrev
    /\ args = NoArgs
    /\ res = NoRes

\* import numpy as np ... from scipy import optimize
Imports ==
    /\ AtCell("Imports")
    /\ RunCell("Imports",
               [n \in {"np", "pd", "datetime", "NormalDist", "default_rng",
                       "optimize"} |-> "import"],
               Nothing)
    /\ UNCHANGED << sol, pvCheck, globalRng, run, prev, args, res >>

\* df = pd.read_csv("IMOEX_data.csv"); df.rename(...lower...)
ReadCsv ==
    /\ AtCell("ReadCsv")
    /\ \E d \in DailyStd :
          RunCell("ReadCsv",
                  "df" :> [columns |-> CsvColumns, std |-> d], Nothing)
    /\ UNCHANGED << sol, pvCheck, globalRng, run, prev, args, res >>

\* df[column] = ... : the frame gains a column, the name df is not rebound
AddColumn(cell, column) ==
    IF CellReads(cell) \subseteq DOMAIN ns
    THEN /\ ns' = [ns EXCEPT !["df"].columns = @ \cup {column}]
         /\ pc' = pc + 1
         /\ UNCHANGED << writes, out, err >>
    ELSE /\ err' = "NameError"
         /\ UNCHANGED << ns, writes, out, pc >>

\* df['date'] = df.apply(... strptime(row['tradedate']) ...)
ParseDates ==
    /\ AtCell("ParseDates")
    /\ AddColumn("ParseDates", "date")
    /\ UNCHANGED << sol, pvCheck, globalRng, run, prev, args, res >>

\* df['return'] = np.log(df['close']).diff()
Returns ==
    /\ AtCell("Returns")
    /\ AddColumn("Returns", "return")
    /\ UNCHANGED << sol, pvCheck, globalRng, run, prev, args, res >>

\* vol = np.std(df['return']) * np.sqrt(252)
AnnualVol(std) == Mul(std, Sqrt(252 * SCALE))

Volatility ==
    /\ AtCell("Volatility")
    /\ LET v == AnnualVol(ns["df"].std)
       IN  RunCell("Volatility", "vol" :> v, "Volatility" :> v)
    /\ UNCHANGED << sol, pvCheck, globalRng, run, prev, args, res >>

\* rfr, maturity = 0.08, 3; last_close = 1; def BS ...; c, p = BS(...)
PriceBS ==
    /\ AtCell("PriceBS")
    /\ LET rfr        == Dec(8, 100)
           maturity   == 3 * SCALE
           last_close == SCALE
           cp == BS(last_close, last_close, rfr, ns["vol"], maturity)
       IN  RunCell("PriceBS",
                   ("rfr" :> rfr) @@ ("maturity" :> maturity)
                   @@ ("last_close" :> last_close) @@ ("BS" :> "def")
                   @@ ("c" :> cp.call) @@ ("p" :> cp.put),
                   Nothing)
    /\ UNCHANGED << sol, pvCheck, globalRng, run, prev, args, res >>

\* epsilon = default_rng(seed=42).normal(size=10000); ST = ...; c_mc, p_mc
MonteCarlo ==
    /\ AtCell("MonteCarlo")
    /\ LET epsilon == NormalDraws(SampleState(Seed, globalRng), NDraws)
           ST == [i \in 1 .. NDraws |->
                    TerminalPrice(ns["last_close"], ns["rfr"], ns["vol"],
                                  ns["maturity"], epsilon[i])]
           call_payoffs == [i \in 1 .. NDraws |->
                              Fmax0(ST[i] - ns["last_close"])]
           put_payoffs  == [i \in 1 .. NDraws |->
                              Fmax0(ns["last_close"] - ST[i])]
           disc == Exp(-Mul(ns["rfr"], ns["maturity"]))
       IN  RunCell("MonteCarlo",
                   ("epsilon" :> epsilon) @@ ("ST" :> ST)
                   @@ ("call_payoffs" :> call_payoffs)
                   @@ ("put_payoffs" :> put_payoffs)
                   @@ ("c_mc" :> Mul(Mean(call_payoffs), disc))
                   @@ ("p_mc" :> Mul(Mean(put_payoffs), disc)),
                   Nothing)
    /\ UNCHANGED << sol, pvCheck, globalRng, run, prev, args, res >>

\* d1 = ...; delta_c = NormalDist().cdf(d1); delta_p = delta_c - 1
Delta ==
    /\ AtCell("Delta")
    /\ LET d1 == Greeks_d1(ns["rfr"], ns["vol"], ns["maturity"])
           delta_c == Delta_c(d1)
       IN  RunCell("Delta",
                   ("d1" :> d1.val) @@ ("delta_c" :> delta_c)
                   @@ ("delta_p" :> Delta_p(delta_c)),
                   Nothing)
    /\ UNCHANGED << sol, pvCheck, globalRng, run, prev, args, res >>

\* NormalDist().pdf(d1) * (vol - 2 * rfr) * np.sqrt(maturity) / (2 * vol**2)
DeltaSens ==
    /\ AtCell("DeltaSens")
    /\ LET vol == ns["vol"]
           v == Div(Mul(Mul(Pdf(ns["d1"]), vol - 2 * ns["rfr"]),
                        Sqrt(ns["maturity"])),
                    2 * Mul(vol, vol))
       IN  RunCell("DeltaSens", Nothing, "DeltaSens" :> v)
    /\ UNCHANGED << sol, pvCheck, globalRng, run, prev, args, res >>

\* vega = last_close * np.sqrt(maturity) * NormalDist().pdf(d1)
Vega ==
    /\ AtCell("Vega")
    /\ LET vega == Mul(Mul(ns["last_close"], Sqrt(ns["maturity"])),
                       Pdf(ns["d1"]))
       IN  RunCell("Vega", "vega" :> vega, Nothing)
    /\ UNCHANGED << sol, pvCheck, globalRng, run, prev, args, res >>

\* last_close * np.sqrt(maturity) / np.sqrt(2*np.pi) * np.exp(-d1**2/2)
\*   * (-d1) * (vol - 2 * rfr) * np.sqrt(maturity) / (2 * vol**2)
VegaSens ==
    /\ AtCell("VegaSens")
    /\ LET vol == ns["vol"]
           d1 == ns["d1"]
           sqrtT == Sqrt(ns["maturity"])
           a == Div(Mul(ns["last_close"], sqrtT), Sqrt(Dec(62832, 10000)))
           b == Mul(Mul(a, Exp(-RDiv(Mul(d1, d1), 2))), -d1)
           v == Div(Mul(Mul(b, vol - 2 * ns["rfr"]), sqrtT),
                    2 * Mul(vol, vol))
       IN  RunCell("VegaSens", Nothing, "VegaSens" :> v)
    /\ UNCHANGED << sol, pvCheck, globalRng, run, prev, args, res >>

\* call_spread = BS(1, 1, rfr, vol, T)[0] - BS(1, 1.5, rfr, vol, T)[0]
CallSpread(r, s, T) ==
    BS(SCALE, SCALE, r, s, T).call - BS(SCALE, Dec(15, 10), r, s, T).call

\* k with the bond leg not discounted: (p0 - 1) / call_spread
ParticipationKUndiscounted(p0, r, maturity, call_spread) ==
    Div(p0 - SCALE, call_spread)

\* k = (p0 - np.exp(-rfr * maturity)) / call_spread
ParticipationK(p0, r, maturity, call_spread) ==
    Div(p0 - Exp(-Mul(r, maturity)), call_spread)

\* p0, pnl, tr_rate, T = 0.98, 0.02, 0.1, 3; call_spread = ...; k = ...
ParticipationRate ==
    /\ AtCell("ParticipationRate")
    /\ LET p0 == Dec(98, 100)
           pnl == Dec(2, 100)
           tr_rate == Dec(1, 10)
           T == 3 * SCALE
           call_spread == CallSpread(ns["rfr"], ns["vol"], T)
           k == ParticipationK(p0, ns["rfr"], ns["maturity"], call_spread)
       IN  RunCell("ParticipationRate",
                   ("p0" :> p0) @@ ("pnl" :> pnl) @@ ("tr_rate" :> tr_rate)
                   @@ ("T" :> T) @@ ("call_spread" :> call_spread)
                   @@ ("k" :> k),
                   Nothing)
    /\ UNCHANGED << sol, pvCheck, globalRng, run, prev, args, res >>

\* PV_bank = p0 - np.exp(-tr_rate * T) - pnl - k * call_spread
BankPVOf(p0, tr_rate, T, pnl, option_leg) ==
    p0 - Exp(-Mul(tr_rate, T)) - pnl - option_leg

BankPV ==
    /\ AtCell("BankPV")
    /\ LET PV_bank == BankPVOf(ns["p0"], ns["tr_rate"], ns["T"], ns["pnl"],
                               Mul(ns["k"], ns["call_spread"]))
       IN  RunCell("BankPV", "PV_bank" :> PV_bank, Nothing)
    /\ UNCHANGED << sol, pvCheck, globalRng, run, prev, args, res >>

\* c_otm with the bond leg not discounted: BS(1, 1, rfr, vol, T)[0] - (p0 - 1)
RequiredCallUndiscounted(p0, r, s, T, maturity) ==
    BS(SCALE, SCALE, r, s, T).call - (p0 - SCALE)

\* c_otm = BS(1, 1, rfr, vol, T)[0] - (p0 - np.exp(-rfr * maturity))
RequiredCall(p0, r, s, T, maturity) ==
    BS(SCALE, SCALE, r, s, T).call - (p0 - Exp(-Mul(r, maturity)))

RequiredOTM ==
    /\ AtCell("RequiredOTM")
    /\ LET c_otm == RequiredCall(ns["p0"], ns["rfr"], ns["vol"], ns["T"],
                                 ns["maturity"])
       IN  RunCell("RequiredOTM", "c_otm" :> c_otm, "RequiredOTM" :> c_otm)
    /\ UNCHANGED << sol, pvCheck, globalRng, run, prev, args, res >>

\* what the cell shows of the OptimizeResult: .x[0], whatever .success is
StrikeShown(result) == result.x

\* optimize.root(fun = lambda x : ... - c_otm, x0 = 1.5).x[0]
SolveStrike ==
    /\ AtCell("SolveStrike")
    /\ IF CellReads("SolveStrike") \subseteq DOMAIN ns
       THEN LET result == OptimizeRoot(Dec(15, 10), ns["rfr"], ns["vol"],
                                       ns["maturity"], ns["c_otm"])
            IN  /\ sol' = [ran |-> TRUE, x |-> result.x,
                           success |-> result.success]
                /\ RunCell("SolveStrike", Nothing,
                           "SolveStrike" :> StrikeShown(result))
       ELSE /\ sol' = sol
            /\ RunCell("SolveStrike", Nothing, Nothing)
    /\ UNCHANGED << pvCheck, globalRng, run, prev, args, res >>

\* the option leg the last cell prices: BS(1, 1, rfr, vol, T)[0] - c_otm
CheckedLeg(r, s, T, c_otm, strike) == BS(SCALE, SCALE, r, s, T).call - c_otm

\* p0 - np.exp(-tr_rate*maturity) - pnl - (BS(1,1,rfr,vol,T)[0] - c_otm) > 0
BankCheck ==
    /\ AtCell("BankCheck")
    /\ IF CellReads("BankCheck") \subseteq DOMAIN ns
       THEN LET pv == BankPVOf(ns["p0"], ns["tr_rate"], ns["maturity"],
                               ns["pnl"],
                               CheckedLeg(ns["rfr"], ns["vol"], ns["T"],
                                          ns["c_otm"], sol.x))
            IN  /\ pvCheck' = pv
                /\ RunCell("BankCheck", Nothing, "BankCheck" :> (pv > 0))
       ELSE /\ pvCheck' = pvCheck
            /\ RunCell("BankCheck", Nothing, Nothing)
    /\ UNCHANGED << sol, globalRng, run, prev, args, res >>

\* Kernel > Restart & Run All, once the run is over: a fresh namespace, an
\* arbitrary global random state, possibly other data in the file
Restart ==
    /\ pc > Len(CodeCells) \/ err # "none"
    /\ run < MaxRuns
    /\ run' = run + 1
    /\ pc' = 1
    /\ ns' = << >>
    /\ out' = << >>
    /\ writes' = << >>
    /\ err' = "none"
    /\ sol' = NoSol
    /\ pvCheck' = 0
    /\ globalRng' \in GlobalSeeds
    /\ prev' = IF "c_mc" \in DOMAIN ns
               THEN [set |-> TRUE, vol |-> ns["vol"], c_mc |-> ns["c_mc"],
                     p_mc |-> ns["p_mc"], rng |-> globalRng]
               ELSE prev
    /\ UNCHANGED << args, res >>

Next ==
    \/ Imports \/ ReadCsv \/ ParseDates \/ Returns \/ Volatility
    \/ PriceBS \/ MonteCarlo \/ Delta \/ DeltaSens \/ Vega \/ VegaSens
    \/ ParticipationRate \/ BankPV \/ RequiredOTM \/ SolveStrike
    \/ BankCheck \/ Restart

Spec == Init /\ [][Next]_vars

---------------------------------------------------------------------------
(* Direct calls: BS, and the Greeks cell's three lines, on arguments drawn *)
(* from a grid that holds valid and invalid values of every parameter.     *)

ArgGrid ==
    [S0 : {Dec(1, 2), SCALE, 2 * SCALE},
     K  : {Dec(1, 2), SCALE, Dec(15, 10), 2 * SCALE},
     r  : {-Dec(5, 100), 0, Dec(8, 100)},
     s  : {-Dec(3548, 10000), 0, Dec(1, 10), Dec(3548, 10000), SCALE},
     T  : {-SCALE, 0, SCALE, 3 * SCALE}]

InitFn ==
    /\ pc = 1
    /\ ns = << >>
    /\ out = << >>
    /\ writes = << >>
    /\ err = "none"
    /\ sol = NoSol
    /\ pvCheck = 0
    /\ globalRng = 1
    /\ run = 1
    /\ prev = NoPrev
    /\ args \in ArgGrid
    /\ res = NoRes

\* call, put = BS(S0, K, r, s, T)
CallBS ==
    /\ res.fn = "none"
    /\ res' = [fn |-> "BS"] @@ BS(args.S0, args.K, args.r, args.s, args.T)
    /\ UNCHANGED << pc, ns, out, writes, err, sol, pvCheck, globalRng, run,
                    prev, args >>

\* the three lines of the Greeks cell with rfr, vol, maturity = r, s, T
GreeksOf(d1) ==
    IF d1.kind = "nan" THEN [ret |-> "nan", delta_c |-> 0, delta_p |-> 0]
    ELSE [ret |-> "value", delta_c |-> Delta_c(d1),
          delta_p |-> Delta_p(Delta_c(d1))]

CallGreeks ==
    /\ res.fn = "none"
    /\ res' = [fn |-> "Greeks"] @@ GreeksOf(Greeks_d1(args.r, args.s, args.T))
    /\ UNCHANGED << pc, ns, out, writes, err, sol, pvCheck, globalRng, run,
                    prev, args >>

NextFn == CallBS \/ CallGreeks

SpecFn == InitFn /\ [][NextFn]_vars

---------------------------------------------------------------------------
(* Properties.                                                             *)

\* the run is over: every cell has run
Finished == pc > Len(CodeCells)

Has(name) == name \in DOMAIN ns

Shown(cell) == cell \in DOMAIN out

\* S0 > 0, K > 0, s > 0, T > 0, any r
ValidArgs == args.S0 > 0 /\ args.K > 0 /\ args.s > 0 /\ args.T > 0

\* C1: put-call parity.  For every valid input the pair BS returns
\* satisfies call - put = S0 - K * exp(-r*T).
C1_PutCallParity ==
    (res.fn = "BS" /\ ValidArgs) =>
        /\ res.ret = "value"
        /\ res.call - res.put = args.S0 - DiscK(args.K, args.r, args.T)

\* BS has priced an option that is not at the money, at a negative rate
C1_Witness ==
    /\ res.fn = "BS" /\ ValidArgs /\ res.ret = "value"
    /\ args.K # args.S0 /\ args.r < 0
    /\ res.call > 0 /\ res.put > 0

\* PV_client = -0.98 + e^{-r_f T} + k (c_ATM - c_OTM)
ClientPV(p0, r, T, k, call_spread) ==
    -p0 + Exp(-Mul(r, T)) + Mul(k, call_spread)

\* C2: the participation rate k of the 100-150% spread, put back into the
\* client's PV formula, gives a client PV of 0 within 1e-6.
C2_ParticipationRoundTrip ==
    Has("k") =>
        Abs(ClientPV(ns["p0"], ns["rfr"], ns["T"], ns["k"],
                     ns["call_spread"])) * 10^6 <= SCALE

\* k has been solved, and is a proper rate, for the most volatile data
C2_Witness ==
    /\ Has("k") /\ ns["k"] > SCALE /\ ns["call_spread"] > 0
    /\ ns["vol"] > Dec(5, 10)

\* the call the pricer gives at the strike the solve showed, less c_otm
StrikeResidual ==
    BS(SCALE, out["SolveStrike"], ns["rfr"], ns["vol"], ns["maturity"]).call
    - ns["c_otm"]

\* C3: the strike the root-solve returns prices the OTM call at c_otm,
\* within tolerance (two units of the resolution).
C3_StrikeRoundTrip ==
    Shown("SolveStrike") =>
        /\ BS(SCALE, out["SolveStrike"], ns["rfr"], ns["vol"],
              ns["maturity"]).ret = "value"
        /\ Abs(StrikeResidual) <= 2

\* C4: when the root-finder does not converge, the solve reports an error
\* and shows no strike taken from the non-converged result.
C4_NonConvergenceReported ==
    (sol.ran /\ ~sol.success) =>
        /\ err # "none"
        /\ ~Shown("SolveStrike")

\* C5: for s <= 0 or T <= 0, BS does not return an ordinary (call, put) pair.
C5_InvalidDomainRejected ==
    (res.fn = "BS" /\ (args.s <= 0 \/ args.T <= 0)) => res.ret # "value"

\* C7: two runs on the same market inputs give the same c_mc and p_mc,
\* whatever state the global generator was in at either run.
C7_MonteCarloReproducible ==
    (prev.set /\ Has("c_mc") /\ ns["vol"] = prev.vol) =>
        /\ ns["c_mc"] = prev.c_mc
        /\ ns["p_mc"] = prev.p_mc

\* a second run has priced by Monte Carlo on the same data as the first,
\* with the global generator in another state
C7_Witness ==
    /\ prev.set /\ Has("c_mc") /\ ns["vol"] = prev.vol
    /\ prev.rng # globalRng
    /\ ns["c_mc"] > 0 /\ ns["p_mc"] > 0

\* the bank PV of the terms mode (b) ends with: the ATM call less the call
\* at the strike the solve showed
ImpliedBankPV ==
    BankPVOf(ns["p0"], ns["tr_rate"], ns["maturity"], ns["pnl"],
             BS(SCALE, SCALE, ns["rfr"], ns["vol"], ns["T"]).call
             - BS(SCALE, out["SolveStrike"], ns["rfr"], ns["vol"],
                  ns["maturity"]).call)

\* C8: both modes check the bank PV of the resulting terms to be >= 0:
\* mode (a) with the solved k, mode (b) with the call spread implied by the
\* solved strike (within tolerance); the check leaves k and the strike alone.
C8_BankPVVerified ==
    /\ Has("PV_bank") =>
          /\ ns["PV_bank"] = BankPVOf(ns["p0"], ns["tr_rate"], ns["T"],
                                      ns["pnl"],
                                      Mul(ns["k"], ns["call_spread"]))
          /\ ns["PV_bank"] >= 0
    /\ Shown("BankCheck") =>
          /\ Abs(pvCheck - ImpliedBankPV) <= 2
          /\ out["BankCheck"] = (pvCheck >= 0)
          /\ out["SolveStrike"] = sol.x

\* C9: delta_c - delta_p = 1 and 0 <= delta_c <= 1, for every valid
\* (rfr, vol, maturity).
C9_DeltaParity ==
    (res.fn = "Greeks" /\ args.s > 0 /\ args.T > 0) =>
        /\ res.ret = "value"
        /\ res.delta_c - res.delta_p = SCALE
        /\ 0 <= res.delta_c /\ res.delta_c <= SCALE

\* the deltas have been computed, strictly inside their ranges
C9_Witness ==
    /\ res.fn = "Greeks" /\ args.s > 0 /\ args.T > 0
    /\ 0 < res.delta_c /\ res.delta_c < SCALE \div 2
    /\ res.delta_p < 0

\* C10: in a top-to-bottom run no cell reads a name before the cell that
\* defines it: vol is bound before any pricing result, the closed-form
\* prices before any solving result; and vol, rfr, maturity, last_close are
\* assigned once.
C10_SequentialDependency ==
    /\ err = "none"
    /\ pc <= Len(CodeCells) => CellReads(CodeCells[pc]) \subseteq DOMAIN ns
    /\ \A n \in {"vol", "rfr", "maturity", "last_close"} :
          n \in DOMAIN writes => writes[n] = 1
    /\ (Has("c") \/ Has("c_mc") \/ Has("delta_c") \/ Has("vega")) => Has("vol")
    /\ (Has("k") \/ Has("PV_bank")) => (Has("c") /\ Has("call_spread"))
    /\ (sol.ran \/ Shown("BankCheck")) => (Has("c") /\ Has("c_otm"))

\* a whole run has ended without an exception
C10_Witness ==
    /\ Finished /\ err = "none"
    /\ writes["vol"] = 1 /\ Shown("BankCheck") /\ sol.ran

\* exp(-rfr*T) - exp(-tr_rate*T) - pnl: the bank PV with the option legs
\* cancelled, a value of the rates, the term and the margin only
FairBankPV ==
    Exp(-Mul(ns["rfr"], ns["T"])) - Exp(-Mul(ns["tr_rate"], ns["T"]))
    - ns["pnl"]

\* C11: at the fair terms the bank PV does not depend on the option legs.
\* The PV_bank of mode (a), evaluated with the solved k, and the bank PV of
\* mode (b), evaluated with the target c_otm, both equal
\* exp(-rfr*T) - exp(-tr_rate*T) - pnl, whatever vol, k and the strike are;
\* T and maturity hold the same value.
C11_BankPVIndependentOfLegs ==
    /\ Has("PV_bank") =>
          /\ ns["T"] = ns["maturity"]
          /\ ns["PV_bank"] = FairBankPV
    /\ Shown("BankCheck") =>
          /\ pvCheck = FairBankPV
          /\ pvCheck = ns["PV_bank"]

\* both modes have evaluated their bank PV, with a k other than 1 and a
\* converged strike other than the 1.5 of mode (a)
C11_Witness ==
    /\ Has("PV_bank") /\ Shown("BankCheck")
    /\ ns["k"] # SCALE /\ ns["call_spread"] > 0
    /\ sol.success /\ out["SolveStrike"] # Dec(15, 10)
    /\ pvCheck > 0

====
